---- MODULE Spec2Model ----
(***************************************************************************)
(* Sign-up form: the zod schema UserSchema, the react-hook-form submit     *)
(* pipeline handleSubmit(onSubmit) with zodResolver, and onSubmit's        *)
(* reconciliation of the server's field errors.                            *)
(*                                                                         *)
(* Strings are sequences of one-character strings.  A JavaScript value is  *)
(* a record [kind, chars, num]: kind is "undefined", "nan", "string",      *)
(* "number" or "numeral" (the text of a number input); a number is kept as *)
(* the integer num = value * Scale, so that non-integers are representable.*)
(*                                                                         *)
(* The library calls behave as in zod 3 and react-hook-form 7:             *)
(*  - a failed check of z.string()/z.number() adds an issue and marks the  *)
(*    parse dirty, a value of the wrong type (NaN included) aborts it;     *)
(*    z.object parses every key; .refine runs unless the object aborted;   *)
(*  - zodResolver keeps the first issue of each path;                      *)
(*  - handleSubmit replaces formState.errors by the resolver's errors and  *)
(*    calls onSubmit with the parsed values only when there are none;      *)
(*  - setError sets one entry of formState.errors.                         *)
(* The browser's own constraint validation of the inputs (type="email",    *)
(* type="number") is not part of the source and is not modelled.           *)
(*                                                                         *)
(* Spec         the form: submit attempts, and the posts of onSubmit       *)
(*              resolving or rejecting in any order;                       *)
(* SpecResponse onSubmit after the await, on every response body;          *)
(* SpecSchema   UserSchema as a function of its input.                     *)
(***************************************************************************)
EXTENDS Integers, Sequences, FiniteSets, TLC

\* ---------------------------------------------------------------- bounds
Scale == 2         \* numbers are multiples of 1/Scale
MaxYearsIn == 12   \* largest yearsOfExperience value enumerated
MaxPwLen == 22     \* longest password enumerated
MaxReq == 2        \* submissions that reach onSubmit in one behaviour
MaxErrKeys == 2    \* keys of a response's errors object

\* ------------------------------------------------------ program constants
YearsMin == 1
YearsMax == 10
PasswordMin == 8
PasswordMax == 20

\* ---------------------------------------------------------------- values
Undefined == [kind |-> "undefined", chars |-> <<>>, num |-> 0]
NaN == [kind |-> "nan", chars |-> <<>>, num |-> 0]
Str(cs) == [kind |-> "string", chars |-> cs, num |-> 0]
Num(n) == [kind |-> "number", chars |-> <<>>, num |-> n]
Numeral(n) == [kind |-> "numeral", chars |-> <<>>, num |-> n]

Rep(c, n) == [i \in 1..n |-> c]

\* the letters of the strings enumerated below
Letters ==
  {"a", "b", "c", "d", "e", "f", "g", "h", "i", "j", "k", "l", "m", "n", "o",
   "p", "q", "r", "s", "t", "u", "v", "w", "x", "y", "z", "D"}
Digits == {"0", "1", "2", "3", "4", "5", "6", "7", "8", "9"}
AlNum == Letters \cup Digits

EmailGood == <<"a", "@", "b", ".", "c", "o">>
EmailNoAt == <<"a", "b", ".", "c", "o">>
EmailShortTld == <<"a", "@", "b", ".", "c">>
EmailDotDot == <<"a", ".", ".", "b", "@", "c", ".", "d", "e">>
UrlGithub ==
  <<"h", "t", "t", "p", "s", ":", "/", "/", "g", "i", "t", "h", "u", "b", ".",
    "c", "o", "m", "/", "u">>
UrlOther ==
  <<"h", "t", "t", "p", "s", ":", "/", "/", "g", "i", "t", "l", "a", "b", ".",
    "c", "o", "m", "/", "u">>
UrlNoScheme == <<"g", "i", "t", "h", "u", "b", ".", "c", "o", "m", "/", "u">>
UrlPlain == <<"f", "o", "o">>
UrlNoHost == <<"h", "t", "t", "p", "s", ":", "/", "/">>
GithubCom == <<"g", "i", "t", "h", "u", "b", ".", "c", "o", "m">>
Different == <<"D", "i", "f", "f", "e", "r", "e", "n", "t">>

\* ------------------------------------------------------- string predicates
\* String.prototype.includes
Includes(s, sub) ==
  \E i \in 0..(Len(s) - Len(sub)) : SubSeq(s, i + 1, i + Len(sub)) = sub

\* zod's email pattern:
\*   ^(?!\.)(?!.*\.\.)([A-Z0-9_+-\.]*)[A-Z0-9_+-]@([A-Z0-9][A-Z0-9\-]*\.)+[A-Z]{2,}$
DomainOk(d) ==
  \E p \in 1..Len(d) :
    /\ d[p] = "."
    /\ Len(d) - p >= 2
    /\ \A i \in (p + 1)..Len(d) : d[i] \in Letters
    /\ \A i \in 1..p : d[i] \in AlNum \cup {"-", "."}
    /\ \A i \in 1..p : (i = 1 \/ d[i - 1] = ".") => d[i] \in AlNum

IsEmail(s) ==
  LET ats == {i \in 1..Len(s) : s[i] = "@"} IN
  /\ Cardinality(ats) = 1
  /\ LET at == CHOOSE i \in ats : TRUE
         local == SubSeq(s, 1, at - 1)
         dom == SubSeq(s, at + 1, Len(s))
     IN /\ Len(local) >= 1
        /\ local[1] # "."
        /\ ~Includes(s, <<".", ".">>)
        /\ \A i \in 1..Len(local) : local[i] \in AlNum \cup {"_", "+", "-", "."}
        /\ local[Len(local)] # "."
        /\ DomainOk(dom)

\* new URL(s) does not throw: s starts with a scheme and ":", and has a host
\* when the scheme is http or https
SpecialSchemes == {<<"h", "t", "t", "p">>, <<"h", "t", "t", "p", "s">>}

HostOf(rest) ==
  LET starts == {i \in 1..(Len(rest) + 1) : \A j \in 1..(i - 1) : rest[j] = "/"}
      from == CHOOSE i \in starts : \A k \in starts : k <= i
      ends == {i \in from..(Len(rest) + 1) :
                 \A j \in from..(i - 1) : rest[j] \notin {"/", "?", "#"}}
      to == CHOOSE i \in ends : \A k \in ends : k <= i
  IN SubSeq(rest, from, to - 1)

IsUrl(s) ==
  \E c \in 2..Len(s) :
    /\ s[c] = ":"
    /\ s[1] \in Letters
    /\ \A i \in 2..(c - 1) : s[i] \in AlNum \cup {"+", "-", "."}
    /\ SubSeq(s, 1, c - 1) \in SpecialSchemes
         => HostOf(SubSeq(s, c + 1, Len(s))) # <<>>

\* ------------------------------------------------------------- UserSchema
FieldOrder ==
  <<"email", "githubUrl", "yearsOfExperience", "password", "confirmPassword">>
Fields == {FieldOrder[i] : i \in 1..Len(FieldOrder)}

Issue(path, code, message) == [path |-> path, code |-> code, message |-> message]

\* a field parser's return: ParseStatus, issues added to the context, value
Parsed(status, issues, value) ==
  [status |-> status, issues |-> issues, value |-> value]

\* ZodString._parse on a non-string: the default error map's message
StringTypeIssue(path, v) ==
  Issue(path, "invalid_type",
        IF v.kind = "undefined" THEN "Required" ELSE "Expected string")

Check(failed, issue) == IF failed THEN <<issue>> ELSE <<>>

StatusOf(issues) == IF issues = <<>> THEN "valid" ELSE "dirty"

\* email: z.string().email()
ParseEmail(v) ==
  IF v.kind # "string"
  THEN Parsed("aborted", <<StringTypeIssue("email", v)>>, v)
  ELSE LET iss == Check(~IsEmail(v.chars),
                        Issue("email", "invalid_string", "Invalid email"))
       IN Parsed(StatusOf(iss), iss, v)

\* githubUrl: z.string().url().includes("github.com", {message})
ParseGithubUrl(v) ==
  IF v.kind # "string"
  THEN Parsed("aborted", <<StringTypeIssue("githubUrl", v)>>, v)
  ELSE LET iss ==
             Check(~IsUrl(v.chars),
                   Issue("githubUrl", "invalid_string", "Invalid url"))
             \o Check(~Includes(v.chars, GithubCom),
                      Issue("githubUrl", "invalid_string", "Invalid GitHub URL"))
       IN Parsed(StatusOf(iss), iss, v)

\* faulty variant: the two messages exchanged
NumberTypeMessageSwapped(v) ==
  IF v.kind = "undefined" THEN "Years of Experience is required"
  ELSE "required field"

\* z.number({required_error, invalid_type_error}): the message of a type failure
NumberTypeMessage(v) ==
  IF v.kind = "undefined" THEN "required field"
  ELSE "Years of Experience is required"

\* .min(1).max(10) on a number
TooSmall(n) == n < YearsMin * Scale

TooBig(n) == n > YearsMax * Scale

ParseYears(v) ==
  IF v.kind # "number"
  THEN Parsed("aborted",
              <<Issue("yearsOfExperience", "invalid_type", NumberTypeMessage(v))>>,
              v)
  ELSE LET iss ==
             Check(TooSmall(v.num),
                   Issue("yearsOfExperience", "too_small",
                         "Number must be greater than or equal to 1"))
             \o Check(TooBig(v.num),
                      Issue("yearsOfExperience", "too_big",
                            "Number must be less than or equal to 10"))
       IN Parsed(StatusOf(iss), iss, v)

\* faulty variant: max(20) taken as exclusive
PasswordTooLongOffByOne(s) == Len(s) >= PasswordMax

\* password: z.string().min(8, {message}).max(20, {message})
PasswordTooShort(s) == Len(s) < PasswordMin

PasswordTooLong(s) == Len(s) > PasswordMax

ParsePassword(v) ==
  IF v.kind # "string"
  THEN Parsed("aborted", <<StringTypeIssue("password", v)>>, v)
  ELSE LET iss ==
             Check(PasswordTooShort(v.chars),
                   Issue("password", "too_small", "Password is too short"))
             \o Check(PasswordTooLong(v.chars),
                      Issue("password", "too_big", "Password is too long"))
       IN Parsed(StatusOf(iss), iss, v)

\* confirmPassword: z.string()
ParseConfirmPassword(v) ==
  IF v.kind # "string"
  THEN Parsed("aborted", <<StringTypeIssue("confirmPassword", v)>>, v)
  ELSE Parsed("valid", <<>>, v)

ParseField(f, v) ==
  CASE f = "email" -> ParseEmail(v)
    [] f = "githubUrl" -> ParseGithubUrl(v)
    [] f = "yearsOfExperience" -> ParseYears(v)
    [] f = "password" -> ParsePassword(v)
    [] f = "confirmPassword" -> ParseConfirmPassword(v)

RECURSIVE IssuesFrom(_, _)
IssuesFrom(data, i) ==
  IF i > Len(FieldOrder) THEN <<>>
  ELSE ParseField(FieldOrder[i], data[FieldOrder[i]]).issues
       \o IssuesFrom(data, i + 1)

\* ZodObject._parse with ParseStatus.mergeObjectSync: every key is parsed, the
\* object is aborted when a value is, dirty when a value is dirty
ParseObject(data) ==
  LET st == [f \in Fields |-> ParseField(f, data[f]).status] IN
  Parsed(IF \E f \in Fields : st[f] = "aborted" THEN "aborted"
         ELSE IF \E f \in Fields : st[f] = "dirty" THEN "dirty"
         ELSE "valid",
         IssuesFrom(data, 1),
         data)

\* faulty variant: the refinement runs only after a clean parse
RefinementSkippedUnlessValid(status) == status # "valid"

\* ZodEffects._parse, refinement: not executed when the inner parse aborted
RefinementSkipped(status) == status = "aborted"

\* the predicate of .refine
PasswordsMatch(data) == data.password = data.confirmPassword

\* faulty variant: the mismatch reported against password
RefineIssueOnPassword == Issue("password", "custom", "Passwords do not match")

\* the issue of .refine: {message, path: ["confirmPassword"]}
RefineIssue == Issue("confirmPassword", "custom", "Passwords do not match")

\* UserSchema.safeParse(data)
UserSchema(data) ==
  LET inner == ParseObject(data)
      iss == IF RefinementSkipped(inner.status) \/ PasswordsMatch(data)
             THEN inner.issues
             ELSE inner.issues \o <<RefineIssue>>
  IN [success |-> iss = <<>>, issues |-> iss, data |-> data]

\* ------------------------------------------------------------------ state
VARIABLES
  raw,       \* the values handed to the schema by the last run of the resolver
  result,    \* what UserSchema returned for them
  errors,    \* formState.errors: field -> [type, message]
  reqs,      \* one record per invocation of onSubmit: its axios.post and payload,
             \* the error map when it was issued, the invocations then in flight
  alerts,    \* number of alert("Submitting form failed!") calls so far
  last       \* the handler that ran last, with its input

vars == <<raw, result, errors, reqs, alerts, last>>

NoError == [type |-> "none", message |-> ""]
NoErrors == [f \in Fields |-> NoError]
NoValues == [f \in Fields |-> Undefined]
NotParsed == [success |-> FALSE, issues |-> <<>>, data |-> NoValues]

\* ------------------------------------------------- the form and the resolver
\* react-hook-form's getFieldValueAs for register(name, {valueAsNumber}): the
\* input's text, or with valueAsNumber NaN for "" and +text otherwise
GetFieldValueAs(value, valueAsNumber) ==
  IF ~valueAsNumber THEN value
  ELSE IF value.kind = "numeral" THEN Num(value.num)
  ELSE NaN

\* the five FormField elements: only yearsOfExperience has valueAsNumber
FormValues(input) ==
  [f \in Fields |-> GetFieldValueAs(input[f], f = "yearsOfExperience")]

\* zodResolver's parseErrorSchema: the first issue of each path
FirstIssueAt(issues, f) ==
  LET at == {i \in 1..Len(issues) : issues[i].path = f} IN
  IF at = {} THEN NoError
  ELSE LET i == CHOOSE k \in at : \A j \in at : k <= j
       IN [type |-> issues[i].code, message |-> issues[i].message]

ToFieldErrors(issues) == [f \in Fields |-> FirstIssueAt(issues, f)]

\* faulty variant: the resolver reports no errors whatever the parse result
ResolverFromAcceptsAll(p) == [values |-> p.data, errors |-> NoErrors, parse |-> p]

\* zodResolver(UserSchema): {values, errors} from the parse result p
ResolverFrom(p) ==
  IF p.success
  THEN [values |-> p.data, errors |-> NoErrors, parse |-> p]
  ELSE [values |-> NoValues, errors |-> ToFieldErrors(p.issues), parse |-> p]

\* the element of a one-element set: Only({F(x) : x \in {e}}) is F(e) with e
\* evaluated once
Only(S) == CHOOSE x \in S : TRUE

Resolver(values) == Only({ResolverFrom(p) : p \in {UserSchema(values)}})

\* ------------------------------------------------------------- the network
ServerKeys == Fields \cup {"username"}
Messages == {"", "taken", "weak"}

ErrorsAbsent == [kind |-> "undefined", entries |-> <<>>]
ErrorsNull == [kind |-> "null", entries |-> <<>>]
ErrorsObject(e) == [kind |-> "object", entries |-> e]

ErrorsValues ==
  {ErrorsAbsent, ErrorsNull}
  \cup {ErrorsObject(e) :
          e \in UNION {[K -> Messages] :
                         K \in {S \in SUBSET ServerKeys :
                                  Cardinality(S) <= MaxErrKeys}}}

BodyMissing == [kind |-> "undefined", errors |-> ErrorsAbsent]
BodyNull == [kind |-> "null", errors |-> ErrorsAbsent]
BodyText == [kind |-> "string", errors |-> ErrorsAbsent]
Body(e) == [kind |-> "object", errors |-> e]

\* response.data: every body whose errors object has at most MaxErrKeys keys
ResponseBodies == {BodyMissing, BodyNull, BodyText} \cup {Body(e) : e \in ErrorsValues}

\* the bodies the server answers with when submissions overlap
SampleBodies ==
  {BodyNull, Body(ErrorsNull), Body(ErrorsAbsent),
   Body(ErrorsObject("email" :> "taken")),
   Body(ErrorsObject("email" :> "weak")),
   Body(ErrorsObject("password" :> "weak")),
   Body(ErrorsObject("email" :> "taken" @@ "password" :> "weak")),
   Body(ErrorsObject("email" :> "" @@ "confirmPassword" :> "taken"))}

\* --------------------------------------------------------------- onSubmit
\* errors[field] of the destructured errors object (undefined when not a key)
ErrorAt(e, field) ==
  IF field \in DOMAIN e.entries THEN e.entries[field] ELSE ""

\* JavaScript truthiness of errors[field]
Truthy(m) == m # ""

\* const { errors = {} } = response.data: the default is taken for undefined only
DestructureErrors(body) ==
  IF body.errors.kind = "undefined" THEN ErrorsObject(<<>>) ELSE body.errors

\* the destructuring or errors[field] throws a TypeError
Throws(body) ==
  \/ body.kind \in {"undefined", "null"}
  \/ body.errors.kind = "null"

\* faulty variant: the last field with an error instead of the first
FindLast(e) ==
  LET hits == {i \in 1..Len(FieldOrder) : Truthy(ErrorAt(e, FieldOrder[i]))} IN
  IF hits = {} THEN 0 ELSE CHOOSE i \in hits : \A j \in hits : j <= i

\* Object.keys(fieldErrorMapping).find((field) => errors[field]): 0 when none
RECURSIVE FindFrom(_, _)
FindFrom(e, i) ==
  IF i > Len(FieldOrder) THEN 0
  ELSE IF Truthy(ErrorAt(e, FieldOrder[i])) THEN i
  ELSE FindFrom(e, i + 1)

FieldWithError(e) == FindFrom(e, 1)

\* faulty variant: setting a server error clears the other server errors
SetErrorReplacingServerErrors(errs, name, error) ==
  [f \in Fields |->
     IF f = name THEN error
     ELSE IF errs[f].type = "server" THEN NoError ELSE errs[f]]

\* setError(name, error): set(_formState.errors, name, error)
SetError(errs, name, error) == [errs EXCEPT ![name] = error]

\* the try block after the await: the new error map
Reconcile(errs, body) ==
  LET e == DestructureErrors(body)
      i == FieldWithError(e)
  IN IF i = 0 THEN errs
     ELSE SetError(errs, FieldOrder[i],
                   [type |-> "server", message |-> ErrorAt(e, FieldOrder[i])])

\* faulty variant: the catch block also sets a field error
CatchMarksEmail(errs) ==
  [errs EXCEPT !["email"] = [type |-> "server", message |-> "failed"]]

\* the catch block: alert(...) and nothing else
Catch(errs) == errs

\* ------------------------------------------------------------ what is typed
PwA(n) == Str(Rep("a", n))

YearsTexts ==
  {Str(<<>>)} \cup {Numeral(n) : n \in {0, YearsMin * Scale, YearsMin * Scale + 1}}

GoodInput ==
  [email |-> Str(EmailGood), githubUrl |-> Str(UrlGithub),
   yearsOfExperience |-> Numeral(YearsMin * Scale),
   password |-> PwA(PasswordMin), confirmPassword |-> PwA(PasswordMin)]

\* what the user has typed when submitting: the good input with one field, or
\* the two passwords, changed
FormInputs ==
  {[GoodInput EXCEPT !.email = Str(EmailNoAt)],
   [GoodInput EXCEPT !.githubUrl = Str(UrlOther)],
   [GoodInput EXCEPT !.confirmPassword = Str(Different)],
   [GoodInput EXCEPT !.password = PwA(PasswordMin - 1)],
   [GoodInput EXCEPT !.password = PwA(PasswordMin - 1),
                     !.confirmPassword = PwA(PasswordMin - 1)],
   [GoodInput EXCEPT !.password = PwA(PasswordMax + 1),
                     !.confirmPassword = PwA(PasswordMax + 1)]}
  \cup {[GoodInput EXCEPT !.yearsOfExperience = y] : y \in YearsTexts}

\* ---------------------------------------------------------------- actions
Slots == 1..MaxReq
FreeSlot == [st |-> "free", data |-> NoValues,
             errorsAtIssue |-> NoErrors, concurrent |-> {}]
NoLast == [op |-> "none", slot |-> 0, body |-> BodyMissing]

\* the lowest unused record, 0 when MaxReq invocations have been made
NextSlot ==
  IF \A s \in Slots : reqs[s].st # "free" THEN 0
  ELSE CHOOSE s \in Slots : reqs[s].st = "free"
                            /\ \A t \in Slots : reqs[t].st = "free" => s <= t

\* handleSubmit(onSubmit) up to the await in onSubmit: run the resolver, replace
\* formState.errors by its errors, and when there are none call onSubmit(values),
\* which issues axios.post("/api/form", values)
HandleSubmit(input) ==
  \E values \in {FormValues(input)} :
    \E r \in {Resolver(values)} :
      /\ r.errors = NoErrors => NextSlot # 0
      /\ raw' = values
      /\ result' = r.parse
      /\ errors' = r.errors
      /\ reqs' = IF r.errors = NoErrors
                 THEN [reqs EXCEPT ![NextSlot] =
                         [st |-> "inflight", data |-> r.values,
                          errorsAtIssue |-> r.errors,
                          concurrent |-> {t \in Slots : reqs[t].st = "inflight"}]]
                 ELSE reqs
      /\ last' = [op |-> "handleSubmit", slot |-> 0, body |-> BodyMissing]
      /\ UNCHANGED alerts

\* the post of invocation s resolves with response.data = body: the rest of the
\* try block, or the catch block when it throws
PostResolved(s, body) ==
  /\ reqs[s].st = "inflight"
  /\ reqs' = [reqs EXCEPT ![s].st = "done"]
  /\ IF Throws(body)
     THEN errors' = Catch(errors) /\ alerts' = alerts + 1
     ELSE errors' = Reconcile(errors, body) /\ alerts' = alerts
  /\ last' = [op |-> "resolved", slot |-> s, body |-> body]
  /\ UNCHANGED <<raw, result>>

\* the post of invocation s rejects (network error, non-2xx status): catch
PostRejected(s) ==
  /\ reqs[s].st = "inflight"
  /\ reqs' = [reqs EXCEPT ![s].st = "failed"]
  /\ errors' = Catch(errors)
  /\ alerts' = alerts + 1
  /\ last' = [op |-> "rejected", slot |-> s, body |-> BodyMissing]
  /\ UNCHANGED <<raw, result>>

Init ==
  /\ raw = NoValues
  /\ result = NotParsed
  /\ errors = NoErrors
  /\ reqs = [s \in Slots |-> FreeSlot]
  /\ alerts = 0
  /\ last = NoLast

Next ==
  \/ \E input \in FormInputs : HandleSubmit(input)
  \/ \E s \in Slots, body \in SampleBodies : PostResolved(s, body)
  \/ \E s \in Slots : PostRejected(s)

Spec == Init /\ [][Next]_vars

\* ------------------------------- onSubmit after the await, on every body
\* one submission in flight, issued from the good input; the error map is empty
\* or holds the errors of a later attempt that failed validation
InitResponse ==
  /\ \E i \in FormInputs :
       \E r \in {Resolver(FormValues(i))} :
         /\ i = GoodInput \/ r.errors # NoErrors
         /\ raw = FormValues(i)
         /\ result = r.parse
         /\ errors = r.errors
  /\ \E g \in {Resolver(FormValues(GoodInput))} :
       reqs = [s \in Slots |->
                 IF s = 1
                 THEN [st |-> "inflight", data |-> g.values,
                       errorsAtIssue |-> NoErrors, concurrent |-> {}]
                 ELSE FreeSlot]
  /\ alerts = 0
  /\ last = [op |-> "handleSubmit", slot |-> 0, body |-> BodyMissing]

NextResponse ==
  \/ \E body \in ResponseBodies : PostResolved(1, body)
  \/ PostRejected(1)

SpecResponse == InitResponse /\ [][NextResponse]_vars

\* --------------------------------------------- the schema as a pure function
YearsValues ==
  {Undefined, NaN, Str(<<"x">>)} \cup {Num(n) : n \in 0..(MaxYearsIn * Scale)}

PasswordValues == {Undefined} \cup {PwA(n) : n \in 0..MaxPwLen}

ConfirmValues(p) ==
  {p, Undefined, Str(Different), Str(Rep("b", Len(p.chars)))}

EmailValues == {Str(e) : e \in {EmailGood, EmailNoAt, EmailShortTld, EmailDotDot}}

UrlValues ==
  {Str(u) : u \in {UrlGithub, UrlOther, UrlNoScheme, UrlPlain, UrlNoHost}}

InitSchema ==
  /\ \E e \in EmailValues, u \in UrlValues, y \in YearsValues,
        p \in PasswordValues :
       \E c \in ConfirmValues(p) :
         raw = [email |-> e, githubUrl |-> u, yearsOfExperience |-> y,
                password |-> p, confirmPassword |-> c]
  /\ result = NotParsed
  /\ errors = NoErrors
  /\ reqs = [s \in Slots |-> FreeSlot]
  /\ alerts = 0
  /\ last = NoLast

\* UserSchema.safeParse(raw)
SafeParse ==
  /\ result = NotParsed
  /\ result' = UserSchema(raw)
  /\ last' = [op |-> "safeParse", slot |-> 0, body |-> BodyMissing]
  /\ UNCHANGED <<raw, errors, reqs, alerts>>

NextSchema == SafeParse

SpecSchema == InitSchema /\ [][NextSchema]_vars

\* =================================================== properties of the schema
HasParsed == last.op = "safeParse"

IsString(v) == v.kind = "string"

\* the rules of the five fields, one by one, read off the schema
EmailRule(d) == IsString(d.email) /\ IsEmail(d.email.chars)
GithubUrlRule(d) ==
  /\ IsString(d.githubUrl)
  /\ IsUrl(d.githubUrl.chars)
  /\ Includes(d.githubUrl.chars, GithubCom)
YearsRule(d) ==
  /\ d.yearsOfExperience.kind = "number"
  /\ d.yearsOfExperience.num >= YearsMin * Scale
  /\ d.yearsOfExperience.num <= YearsMax * Scale
PasswordRule(d) ==
  /\ IsString(d.password)
  /\ Len(d.password.chars) >= PasswordMin
  /\ Len(d.password.chars) <= PasswordMax
ConfirmRule(d) == IsString(d.confirmPassword)

IndividualRulesPass(d) ==
  EmailRule(d) /\ GithubUrlRule(d) /\ YearsRule(d) /\ PasswordRule(d) /\ ConfirmRule(d)

\* every field has the type its schema expects
TypesOk(d) ==
  /\ IsString(d.email) /\ IsString(d.githubUrl)
  /\ IsString(d.password) /\ IsString(d.confirmPassword)
  /\ d.yearsOfExperience.kind = "number"

\* the messages reported against a field
MessagesAt(r, f) ==
  {r.issues[i].message : i \in {j \in 1..Len(r.issues) : r.issues[j].path = f}}

MismatchReported(r) == "Passwords do not match" \in MessagesAt(r, "confirmPassword")

\* C4: when all five fields pass their own rules and password differs from
\* confirmPassword, validation fails with exactly one error, on confirmPassword,
\* with message "Passwords do not match", and none on password; when the two are
\* identical validation succeeds.
C4_MismatchOnConfirmOnly ==
  (HasParsed /\ IndividualRulesPass(raw)) =>
    IF raw.password # raw.confirmPassword
    THEN /\ ~result.success
         /\ Len(result.issues) = 1
         /\ result.issues[1].path = "confirmPassword"
         /\ result.issues[1].message = "Passwords do not match"
         /\ MessagesAt(result, "password") = {}
    ELSE result.success /\ result.issues = <<>>

C4_Witness ==
  /\ HasParsed /\ IndividualRulesPass(raw)
  /\ raw.confirmPassword = Str(Different)
  /\ MismatchReported(result)

\* C5: yearsOfExperience is accepted if and only if it is an integer in [1, 10]
\* (so 2.5 is rejected).
C5_AcceptedIffIntegerInRange ==
  HasParsed =>
    (MessagesAt(result, "yearsOfExperience") = {}
       <=> /\ YearsRule(raw)
           /\ raw.yearsOfExperience.num % Scale = 0)

\* C6: an absent yearsOfExperience fails with "required field", a present but
\* non-numeric one with "Years of Experience is required"; the empty input of
\* the form, which valueAsNumber delivers as NaN, is such a non-numeric value.
C6_AbsentAndNonNumericMessages ==
  HasParsed =>
    /\ raw.yearsOfExperience.kind = "undefined"
         => MessagesAt(result, "yearsOfExperience") = {"required field"}
    /\ raw.yearsOfExperience.kind \in {"nan", "string"}
         => MessagesAt(result, "yearsOfExperience")
              = {"Years of Experience is required"}
    /\ raw.yearsOfExperience = GetFieldValueAs(Str(<<>>), TRUE)
         => MessagesAt(result, "yearsOfExperience")
              = {"Years of Experience is required"}

C6_Witness ==
  /\ HasParsed
  /\ raw.yearsOfExperience = GetFieldValueAs(Str(<<>>), TRUE)
  /\ raw.yearsOfExperience.kind = "nan"
  /\ "Years of Experience is required" \in MessagesAt(result, "yearsOfExperience")

\* C7: a password passes its rule if and only if its length is between 8 and 20
\* inclusive; a shorter one fails with "Password is too short", a longer one
\* with "Password is too long".
C7_PasswordLength ==
  (HasParsed /\ IsString(raw.password)) =>
    LET n == Len(raw.password.chars) IN
    /\ (n >= 8 /\ n <= 20) <=> MessagesAt(result, "password") = {}
    /\ n < 8 => MessagesAt(result, "password") = {"Password is too short"}
    /\ n > 20 => MessagesAt(result, "password") = {"Password is too long"}

C7_Witness ==
  /\ HasParsed /\ IsString(raw.password)
  /\ Len(raw.password.chars) = 20
  /\ MessagesAt(result, "password") = {}

\* C8 as stated: when password violates its length rule no "Passwords do not
\* match" error is produced; and when password and confirmPassword pass their
\* own rules and differ, it is produced even if another field fails its rule.
C8_Original ==
  HasParsed =>
    /\ (IsString(raw.password) /\ ~PasswordRule(raw)) => ~MismatchReported(result)
    /\ (PasswordRule(raw) /\ ConfirmRule(raw)
        /\ raw.password # raw.confirmPassword) => MismatchReported(result)

\* C8 amended: the equality check runs exactly when every field has the type
\* its schema expects, whether or not the fields pass their rules: "Passwords do
\* not match" is reported on confirmPassword if and only if all five values are
\* well typed and password differs from confirmPassword.
C8_CheckRunsWhenWellTyped ==
  HasParsed =>
    (MismatchReported(result)
       <=> (TypesOk(raw) /\ raw.password # raw.confirmPassword))

C8_Witness ==
  /\ HasParsed
  /\ IsString(raw.password) /\ Len(raw.password.chars) < PasswordMin
  /\ "Password is too short" \in MessagesAt(result, "password")
  /\ MismatchReported(result)

C8_WitnessSkipped ==
  /\ HasParsed
  /\ raw.yearsOfExperience.kind = "nan"
  /\ PasswordRule(raw) /\ ConfirmRule(raw)
  /\ raw.password # raw.confirmPassword
  /\ ~MismatchReported(result)

\* ================================================ properties of the response
\* the fields for which the body's errors object carries an error: a non-empty
\* message under the field's name
Carried(body) ==
  IF body.kind = "object" /\ body.errors.kind = "object"
  THEN {f \in Fields :
          f \in DOMAIN body.errors.entries /\ body.errors.entries[f] # ""}
  ELSE {}

Position(f) == CHOOSE i \in 1..Len(FieldOrder) : FieldOrder[i] = f

\* the first carried field in the order email, githubUrl, yearsOfExperience,
\* password, confirmPassword
FirstCarried(body) ==
  CHOOSE f \in Carried(body) : \A g \in Carried(body) : Position(f) <= Position(g)

ServerError(m) == [type |-> "server", message |-> m]

\* C2: a response sets a server error (type "server", the server's message) on
\* at most one field, the first in field order for which the errors object
\* carries an error; every other field, in particular every later field with an
\* error in the same response, is left as it was.
C2_FirstMatchOnly ==
  [][last'.op = "resolved" =>
       IF Carried(last'.body) = {} THEN errors' = errors
       ELSE LET f == FirstCarried(last'.body) IN
            /\ errors'[f] = ServerError(last'.body.errors.entries[f])
            /\ \A g \in Fields \ {f} : errors'[g] = errors[g]]_vars

C2_Witness ==
  /\ last.op = "resolved"
  /\ {"email", "password"} \subseteq Carried(last.body)
  /\ errors["email"] = ServerError(last.body.errors.entries["email"])
  /\ errors["password"].type # "server"

\* C10: for a submission whose POST completes with a response, whatever its
\* body, the alert is not shown; and when the response carries no error for
\* any of the five fields the field-error map is left unchanged.
C10_NoAlertOnResponse ==
  [][last'.op = "resolved" =>
       /\ alerts' = alerts
       /\ Carried(last'.body) = {} => errors' = errors]_vars

\* ============================================== properties of the submissions
AllRulesPass(d) == IndividualRulesPass(d) /\ d.password = d.confirmPassword

Issued(s) == reqs[s].st = "free" /\ reqs'[s].st # "free"
Resolved(s) == reqs[s].st = "inflight" /\ reqs'[s].st = "done"
Rejected(s) == reqs[s].st = "inflight" /\ reqs'[s].st = "failed"

\* C1: a POST is issued only by a submit attempt whose values pass every rule
\* of the schema, with exactly those values as payload; an attempt whose input
\* fails a rule issues no request, shows no alert, and only puts validation
\* errors in the field-error map.
C1_ValidationBlocksSubmission ==
  [][/\ \A s \in Slots :
          Issued(s) => /\ last'.op = "handleSubmit"
                       /\ AllRulesPass(raw')
                       /\ reqs'[s].st = "inflight"
                       /\ reqs'[s].data = raw'
     /\ (last'.op = "handleSubmit" /\ ~AllRulesPass(raw'))
          => /\ reqs' = reqs
             /\ alerts' = alerts
             /\ errors' # NoErrors
             /\ \A f \in Fields : errors'[f].type # "server"]_vars

C1_Witness ==
  /\ last.op = "handleSubmit"
  /\ ~AllRulesPass(raw)
  /\ errors # NoErrors
  /\ \E s \in Slots : reqs[s].st = "inflight"

\* C3 as stated: when the POST fails the alert is shown and the field-error map
\* is the same after the failed submission as it was when the request was
\* issued.
C3_Original ==
  [][\A s \in Slots :
       Rejected(s) => /\ alerts' = alerts + 1
                      /\ errors' = reqs[s].errorsAtIssue]_vars

\* C3 amended: when the POST fails the alert is shown and handling the failure
\* sets no field-level error: the field-error map is the same after the failure
\* is handled as it was immediately before.
C3_FailureSetsNoFieldError ==
  [][\A s \in Slots :
       Rejected(s) => /\ alerts' = alerts + 1
                      /\ errors' = errors]_vars

C3_Witness ==
  /\ last.op = "rejected"
  /\ reqs[last.slot].st = "failed"
  /\ alerts >= 1
  /\ errors # reqs[last.slot].errorsAtIssue

\* the server errors displayed: field and message
ServerEntries(errs) ==
  {<<f, errs[f].message>> : f \in {g \in Fields : errs[g].type = "server"}}

\* the server errors a response would display by itself
AloneEntries(body) ==
  IF Carried(body) = {} THEN {}
  ELSE {<<FirstCarried(body), body.errors.entries[FirstCarried(body)]>>}

WellFormed(body) == body.kind = "object" /\ body.errors.kind # "null"

\* C9 as stated, for well-formed responses: when the response of a submission
\* arrives after that of a submission it overlapped with, the server errors in
\* the field-error map are those the later response alone would produce.
C9_Original ==
  [][\A s \in Slots :
       (/\ Resolved(s)
        /\ WellFormed(last'.body)
        /\ \E q \in Slots \ {s} :
             /\ reqs[q].st = "done"
             /\ q \in reqs[s].concurrent \/ s \in reqs[q].concurrent)
         => ServerEntries(errors') = AloneEntries(last'.body)]_vars

\* C9 amended: last write wins field by field.  A response replaces the server
\* error of the one field it surfaces and leaves every other server error in
\* place, so a server error set by the earlier response on another field stays
\* displayed beside the later one's.
C9_LastWriteWinsPerField ==
  [][\A s \in Slots :
       Resolved(s) =>
         ServerEntries(errors')
           = {e \in ServerEntries(errors) :
                \A a \in AloneEntries(last'.body) : e[1] # a[1]}
             \cup AloneEntries(last'.body)]_vars

C9_Witness ==
  /\ \A s \in {1, 2} : reqs[s].st = "done"
  /\ 1 \in reqs[2].concurrent
  /\ errors["email"].type = "server"
  /\ errors["password"].type = "server"

====
